---- MODULE Spec2Model ----
(***************************************************************************)
(* Black-Scholes pricing engine (src/black_scholes_model.py) and the       *)
(* Streamlit dashboard script that drives it (src/streamlit.py).           *)
(*                                                                         *)
(* Numbers.  A Python/numpy float is modelled as a value on a decimal grid *)
(* of resolution 1/SCALE, or one of the IEEE specials +inf, -inf, nan.     *)
(* Every arithmetic operation returns the real result rounded to the grid  *)
(* (round to nearest), so rounding error, underflow to zero, division by   *)
(* zero and the propagation of inf/nan are all present in the model.       *)
(* Exceptional cases follow numpy: a numpy.float64 division by zero gives  *)
(* inf or nan (a RuntimeWarning, no exception); only the division of two   *)
(* Python floats raises ZeroDivisionError.                                 *)
(***************************************************************************)
EXTENDS Integers, Sequences, FiniteSets, TLC

\* Grid resolution: one unit is 0.001.
SCALE == 10^3

(***************************************************************************)
(* Float values                                                            *)
(***************************************************************************)
F(n) == [k |-> "fin", v |-> n]
PosInf == [k |-> "inf", v |-> 1]
NegInf == [k |-> "inf", v |-> -1]
NaN == [k |-> "nan", v |-> 0]
\* Result of an expression that raised instead of producing a value.
Raised == [k |-> "raise", v |-> 0]
\* An attribute that has not been assigned on an object.
Unset == [k |-> "unset", v |-> 0]

\* All float values, and the two markers above.
Num == [k : {"fin", "inf", "nan", "raise", "unset"}, v : Int]

IsFin(x) == x.k = "fin"
IsInf(x) == x.k = "inf"
IsNaN(x) == x.k = "nan"
IsNumber(x) == x.k \in {"fin", "inf", "nan"}

Sgn(n) == IF n > 0 THEN 1 ELSE IF n < 0 THEN -1 ELSE 0
Abs(n) == IF n < 0 THEN -n ELSE n

\* n / d rounded to the nearest integer, ties away from zero (d # 0).
roundDiv[n \in Int, d \in Int] ==
    Sgn(n) * Sgn(d) * ((2 * Abs(n) + Abs(d)) \div (2 * Abs(d)))

RoundDiv(n, d) == roundDiv[n, d]

\* Unary minus.
neg[a \in Num] == IF IsNaN(a) THEN NaN ELSE [k |-> a.k, v |-> -a.v]

Neg(a) == neg[a]

\* a + b
add[a \in Num, b \in Num] ==
    IF IsNaN(a) \/ IsNaN(b) THEN NaN
    ELSE IF IsInf(a) /\ IsInf(b) THEN (IF a.v = b.v THEN a ELSE NaN)
    ELSE IF IsInf(a) THEN a
    ELSE IF IsInf(b) THEN b
    ELSE F(a.v + b.v)

Add(a, b) == add[a, b]

\* a - b
Sub(a, b) == add[a, neg[b]]

\* a * b
mul[a \in Num, b \in Num] ==
    IF IsNaN(a) \/ IsNaN(b) THEN NaN
    ELSE IF IsInf(a) \/ IsInf(b)
         THEN (IF a.v = 0 \/ b.v = 0 THEN NaN
               ELSE [k |-> "inf", v |-> Sgn(a.v) * Sgn(b.v)])
    ELSE F(RoundDiv(a.v * b.v, SCALE))

Mul(a, b) == mul[a, b]

\* a / b where at least one operand is a numpy.float64: never raises.
div[a \in Num, b \in Num] ==
    IF IsNaN(a) \/ IsNaN(b) THEN NaN
    ELSE IF IsInf(b) THEN (IF IsInf(a) THEN NaN ELSE F(0))
    ELSE IF b.v = 0
         THEN (IF a.v = 0 THEN NaN ELSE [k |-> "inf", v |-> Sgn(a.v)])
    ELSE IF IsInf(a) THEN [k |-> "inf", v |-> Sgn(a.v) * Sgn(b.v)]
    ELSE F(RoundDiv(a.v * SCALE, b.v))

Div(a, b) == div[a, b]

\* a / b on two Python floats: a zero divisor raises ZeroDivisionError.
pyDiv[a \in Num, b \in Num] ==
    IF IsFin(b) /\ b.v = 0 THEN Raised ELSE div[a, b]

PyDiv(a, b) == pyDiv[a, b]

\* a ** 2
Pow2(a) == mul[a, a]

(***************************************************************************)
(* numpy.sqrt, numpy.log, numpy.exp                                        *)
(***************************************************************************)
\* Newton iteration for the integer square root of n, from a guess g >= it.
isqrtFrom[n \in Nat, g \in Nat] ==
    IF (g + n \div g) \div 2 >= g THEN g
    ELSE isqrtFrom[n, (g + n \div g) \div 2]

\* floor(sqrt(n)), n >= 0
ISqrt(n) == IF n < 2 THEN n ELSE isqrtFrom[n, n]

\* sqrt of a grid value n >= 0, rounded to the grid.
sqrtUnits[n \in Nat] ==
    IF (n * SCALE) - ISqrt(n * SCALE) * ISqrt(n * SCALE) > ISqrt(n * SCALE)
    THEN ISqrt(n * SCALE) + 1
    ELSE ISqrt(n * SCALE)

SqrtUnits(n) == sqrtUnits[n]

sqrt[a \in Num] ==
    IF IsNaN(a) THEN NaN
    ELSE IF IsInf(a) THEN (IF a.v > 0 THEN PosInf ELSE NaN)
    ELSE IF a.v < 0 THEN NaN
    ELSE F(SqrtUnits(a.v))

Sqrt(a) == sqrt[a]

\* Working resolution of the series below: 10^-4; ln 2 and ln 1000 at 10^-6.
Fine == 10^4
Ln2Micro == 693147
Ln1000Micro == 6907755
MantBits == 14
MantLo == 2^MantBits

\* The exponent e' with n * 2^e = m * 2^e' and MantLo <= m < 2 * MantLo.
lnExp[n \in Nat, e \in Int] ==
    IF n < MantLo THEN lnExp[2 * n, e - 1]
    ELSE IF n >= 2 * MantLo THEN lnExp[n \div 2, e + 1]
    ELSE e

\* The mantissa m of the same (halving drops the last bit).
lnMantissa[n \in Nat] ==
    IF n < MantLo THEN lnMantissa[2 * n]
    ELSE IF n >= 2 * MantLo THEN lnMantissa[n \div 2]
    ELSE n

\* Odd powers z, z^3 .. z^9 of z (at 10^-4) summed as z + z^3/3 + .. + z^9/9,
\* at 10^-6: term is z^p, sq is z^2.
atanhSum[term \in Int, sq \in Int, p \in Nat] ==
    IF p > 9 THEN 0
    ELSE RoundDiv(100 * term, p)
         + atanhSum[RoundDiv(term * sq, Fine), sq, p + 2]

\* ln(m / MantLo) at 10^-6 for MantLo <= m < 2 MantLo: 2 atanh((m-L)/(m+L)).
lnMant[m \in Nat] ==
    2 * atanhSum[RoundDiv((m - MantLo) * Fine, m + MantLo),
                 RoundDiv(RoundDiv((m - MantLo) * Fine, m + MantLo)
                          * RoundDiv((m - MantLo) * Fine, m + MantLo), Fine),
                 1]

\* ln of a positive grid value n (i.e. of n / SCALE), rounded to the grid.
lnUnits[n \in Nat] ==
    RoundDiv(lnMant[lnMantissa[n]] + (lnExp[n, 0] + MantBits) * Ln2Micro
             - Ln1000Micro, SCALE)

LnUnits(n) == lnUnits[n]

log[a \in Num] ==
    IF IsNaN(a) THEN NaN
    ELSE IF IsInf(a) THEN (IF a.v > 0 THEN PosInf ELSE NaN)
    ELSE IF a.v < 0 THEN NaN
    ELSE IF a.v = 0 THEN NegInf
    ELSE F(LnUnits(a.v))

Log(a) == log[a]

\* 1 + x + x^2/2 + .. + x^5/120 at 10^-4: term is x^p / p!.
expSum[term \in Int, x \in Int, p \in Nat] ==
    IF p > 5 THEN 0
    ELSE term + expSum[RoundDiv(RoundDiv(term * x, Fine), p + 1), x, p + 1]

\* exp(x / Fine) * Fine for x <= 0: halve the argument, square the result.
expFine[x \in Int] ==
    IF x < -(Fine \div 4)
    THEN RoundDiv(expFine[(x \div 2) + (x % 2)] * expFine[x \div 2], Fine)
    ELSE expSum[Fine, x, 0]

\* exp of a grid value, rounded to the grid.
expUnits[n \in Int] ==
    IF n <= 0 THEN RoundDiv(expFine[10 * n], 10)
    ELSE RoundDiv(SCALE * Fine * 10, expFine[-10 * n] * 10)

ExpUnits(n) == expUnits[n]

exp[a \in Num] ==
    IF IsNaN(a) THEN NaN
    ELSE IF IsInf(a) THEN (IF a.v > 0 THEN PosInf ELSE F(0))
    ELSE F(ExpUnits(a.v))

Exp(a) == exp[a]

(***************************************************************************)
(* scipy.stats.norm: the standard normal cdf and pdf.  Tabulated at steps  *)
(* of 0.05 on [0, 4] to five decimals, interpolated linearly, extended by  *)
(* symmetry; beyond 4 the values round to 1 (cdf) and 0 (pdf) on the grid. *)
(***************************************************************************)
CdfTab ==
    << 50000, 51994, 53983, 55962, 57926, 59871, 61791, 63683, 65542,
       67364, 69146, 70884, 72575, 74215, 75804, 77337, 78814, 80234,
       81594, 82894, 84134, 85314, 86433, 87493, 88493, 89435, 90320,
       91149, 91924, 92647, 93319, 93943, 94520, 95053, 95543, 95994,
       96407, 96784, 97128, 97441, 97725, 97982, 98214, 98422, 98610,
       98778, 98928, 99061, 99180, 99286, 99379, 99461, 99534, 99598,
       99653, 99702, 99744, 99781, 99813, 99841, 99865, 99886, 99903,
       99918, 99931, 99942, 99952, 99960, 99966, 99972, 99977, 99981,
       99984, 99987, 99989, 99991, 99993, 99994, 99995, 99996, 99997 >>

PdfTab ==
    << 39894, 39844, 39695, 39448, 39104, 38667, 38139, 37524, 36827,
       36053, 35207, 34294, 33322, 32297, 31225, 30114, 28969, 27798,
       26609, 25406, 24197, 22988, 21785, 20594, 19419, 18265, 17137,
       16038, 14973, 13943, 12952, 12001, 11092, 10226, 9405, 8628,
       7895, 7206, 6562, 5959, 5399, 4879, 4398, 3955, 3547,
       3174, 2833, 2522, 2239, 1984, 1753, 1545, 1358, 1191,
       1042, 909, 792, 687, 595, 514, 443, 381, 327,
       279, 238, 203, 172, 146, 123, 104, 87, 73,
       61, 51, 42, 35, 29, 24, 20, 16, 13 >>

\* Table step (0.05) and table end (4.0) in grid units.
TabStep == SCALE \div 20
TabEnd == 4 * SCALE

\* Linear interpolation in a table at n >= 0 grid units, to five decimals.
interp[tab \in {CdfTab, PdfTab}, n \in Nat] ==
    IF n >= TabEnd THEN tab[Len(tab)]
    ELSE tab[(n \div TabStep) + 1]
         + RoundDiv((tab[(n \div TabStep) + 2] - tab[(n \div TabStep) + 1])
                    * (n % TabStep), TabStep)

cdfUnits[n \in Int] ==
    IF n >= 0 THEN RoundDiv(interp[CdfTab, n], 100)
    ELSE SCALE - RoundDiv(interp[CdfTab, -n], 100)

CdfUnits(n) == cdfUnits[n]

pdfUnits[n \in Int] == RoundDiv(interp[PdfTab, Abs(n)], 100)

PdfUnits(n) == pdfUnits[n]

\* norm.cdf
cdf[a \in Num] ==
    IF IsNaN(a) THEN NaN
    ELSE IF IsInf(a) THEN (IF a.v > 0 THEN F(SCALE) ELSE F(0))
    ELSE F(CdfUnits(a.v))

Cdf(a) == cdf[a]

\* norm.pdf
pdf[a \in Num] ==
    IF IsNaN(a) THEN NaN
    ELSE IF IsInf(a) THEN F(0)
    ELSE F(PdfUnits(a.v))

Pdf(a) == pdf[a]

(***************************************************************************)
(* class BlackScholes                                                      *)
(***************************************************************************)
InputFields ==
    {"time_to_maturity", "strike", "current_price", "volatility",
     "interest_rate"}

ResultFields ==
    {"call_price", "put_price", "call_delta", "put_delta", "call_gamma",
     "put_gamma", "call_theta", "put_theta", "vega", "call_rho", "put_rho"}

\* No object (a name not bound yet).
NoObject == [f \in InputFields \cup ResultFields |-> Unset]

\* BlackScholes.__init__: assigns the five input attributes and nothing else.
BlackScholes(time_to_maturity, strike, current_price, volatility, interest_rate) ==
    [f \in InputFields \cup ResultFields |->
        CASE f = "time_to_maturity" -> time_to_maturity
          [] f = "strike" -> strike
          [] f = "current_price" -> current_price
          [] f = "volatility" -> volatility
          [] f = "interest_rate" -> interest_rate
          [] OTHER -> Unset]

\* All objects: every attribute holds a float or is unassigned.
Obj == [InputFields \cup ResultFields -> Num]

\* The result attributes assigned on an object.
Assigned(self) == {f \in ResultFields : self[f] # Unset}

\* Literals of calculate_prices.
Half == F(SCALE \div 2)
Two == F(2 * SCALE)
One == F(SCALE)
DaysPerYear == 365
PerCent == 100

\* d1 (lines 40-43); Raised when current_price / strike raises.
D1(self) ==
    LET ratio == PyDiv(self.current_price, self.strike)
    IN  IF ratio = Raised THEN Raised
        ELSE Div(Add(Log(ratio),
                     Mul(Add(self.interest_rate,
                             Mul(Half, Pow2(self.volatility))),
                         self.time_to_maturity)),
                 Mul(self.volatility, Sqrt(self.time_to_maturity)))

\* d2 (line 46)
D2(self, d1) ==
    Sub(d1, Mul(self.volatility, Sqrt(self.time_to_maturity)))

\* strike * exp(-interest_rate * time_to_maturity)
Discounted(self) ==
    Mul(self.strike, Exp(Mul(Neg(self.interest_rate), self.time_to_maturity)))

\* line 51
CallPrice(self, d1, d2) ==
    Sub(Mul(self.current_price, Cdf(d1)), Mul(Discounted(self), Cdf(d2)))

\* Variant: cdf(d2), cdf(d1) in place of cdf(-d2), cdf(-d1).
PutPriceNoNegation(self, d1, d2) ==
    Sub(Mul(Discounted(self), Cdf(d2)), Mul(self.current_price, Cdf(d1)))

\* line 54
PutPrice(self, d1, d2) ==
    Sub(Mul(Discounted(self), Cdf(Neg(d2))),
        Mul(self.current_price, Cdf(Neg(d1))))

\* line 62
CallDelta(d1) == Cdf(d1)

\* Variant: the put delta taken as 1 - cdf(d1).
PutDeltaComplement(d1) == Sub(One, Cdf(d1))

\* line 63
PutDelta(d1) == Sub(Cdf(d1), One)

\* line 66
CallGamma(self, d1) ==
    Div(Pdf(d1),
        Mul(Mul(self.current_price, self.volatility),
            Sqrt(self.time_to_maturity)))

\* Variant: a separate put gamma with the put's sign convention.
PutGammaSeparate(self) == Neg(self.call_gamma)

\* line 67: put_gamma is a copy of the attribute just stored.
PutGamma(self) == self.call_gamma

\* -current_price * pdf(d1) * volatility / (2 * sqrt(time_to_maturity))
Decay(self, d1) ==
    Div(Mul(Mul(Neg(self.current_price), Pdf(d1)), self.volatility),
        Mul(Two, Sqrt(self.time_to_maturity)))

\* lines 70-72
CallTheta(self, d1, d2) ==
    Div(Sub(Decay(self, d1),
            Mul(Mul(self.interest_rate, Discounted(self)), Cdf(d2))),
        F(DaysPerYear * SCALE))

\* lines 73-75
PutTheta(self, d1, d2) ==
    Div(Add(Decay(self, d1),
            Mul(Mul(self.interest_rate, Discounted(self)), Cdf(Neg(d2)))),
        F(DaysPerYear * SCALE))

\* line 78
Vega(self, d1) ==
    Div(Mul(Mul(self.current_price, Sqrt(self.time_to_maturity)), Pdf(d1)),
        F(PerCent * SCALE))

\* strike * time_to_maturity * exp(-interest_rate * time_to_maturity)
RhoBase(self) ==
    Mul(Mul(self.strike, self.time_to_maturity),
        Exp(Mul(Neg(self.interest_rate), self.time_to_maturity)))

\* line 81
CallRho(self, d1, d2) == Div(Mul(RhoBase(self), Cdf(d2)), F(PerCent * SCALE))

\* line 82
PutRho(self, d1, d2) ==
    Div(Mul(Neg(RhoBase(self)), Cdf(Neg(d2))), F(PerCent * SCALE))

\* The attribute stores of lines 57-82, in program order.
storeResults[self \in Obj, d1 \in Num, d2 \in Num] ==
    LET s1 == [self EXCEPT !.call_price = CallPrice(self, d1, d2),
                           !.put_price = PutPrice(self, d1, d2)]
        s2 == [s1 EXCEPT !.call_delta = CallDelta(d1),
                         !.put_delta = PutDelta(d1)]
        s3 == [s2 EXCEPT !.call_gamma = CallGamma(self, d1)]
        s4 == [s3 EXCEPT !.put_gamma = PutGamma(s3)]
        s5 == [s4 EXCEPT !.call_theta = CallTheta(self, d1, d2),
                         !.put_theta = PutTheta(self, d1, d2)]
        s6 == [s5 EXCEPT !.vega = Vega(self, d1)]
    IN  [s6 EXCEPT !.call_rho = CallRho(self, d1, d2),
                   !.put_rho = PutRho(self, d1, d2)]

StoreResults(self, d1, d2) == storeResults[self, d1, d2]

\* Line 84: return call_price, put_price
returned[after \in Obj] ==
    [self |-> after, raised |-> "none",
     ret |-> <<after.call_price, after.put_price>>]

\* An exception leaves the method at line 41, before any store.
raisedAt41[self \in Obj] ==
    [self |-> self, raised |-> "ZeroDivisionError", ret |-> <<Unset, Unset>>]

calculatePrices[self \in Obj] ==
    IF D1(self) = Raised THEN raisedAt41[self]
    ELSE returned[StoreResults(self, D1(self), D2(self, D1(self)))]

\* Variant: the prices are stored before the failing division is reached.
calculate_prices_late(self) ==
    IF D1(self) = Raised
    THEN [self |-> [self EXCEPT !.call_price = NaN, !.put_price = NaN],
          raised |-> "ZeroDivisionError", ret |-> <<Unset, Unset>>]
    ELSE calculatePrices[self]

\* BlackScholes.calculate_prices: the object afterwards, the exception that
\* ended the call ("none" when it returned) and the returned pair.
calculate_prices(self) == calculatePrices[self]

(***************************************************************************)
(* Helpers of the dashboard script (src/streamlit.py)                      *)
(***************************************************************************)
\* Points per heatmap axis: np.linspace(..., 10).
GridN == 10
Axis == 0 .. (GridN - 1)
Cells == Axis \X Axis

\* a > b on floats (a comparison with nan is False).
Gt(a, b) ==
    IF IsNaN(a) \/ IsNaN(b) THEN FALSE
    ELSE IF IsInf(a) THEN a.v > 0 /\ a # b
    ELSE IF IsInf(b) THEN b.v < 0
    ELSE a.v > b.v

\* np.linspace(start, stop, GridN)[n]: n * step + start, the last one stop.
linspace(start, stop, n) ==
    LET step == Div(Sub(stop, start), F((GridN - 1) * SCALE))
    IN  IF n = GridN - 1 THEN stop
        ELSE Add(Mul(F(n * SCALE), step), start)

\* np.zeros((len(vol_range), len(spot_range)))
Zeros == [c \in Cells |-> F(0)]

\* Lines 86-93: a new object bs_temp is built from two attributes of the
\* model and priced; the model itself is only read.
heatmapCell[model \in Obj, temp \in Obj] ==
    [model |-> model, temp |-> calculate_prices(temp).self,
     raised |-> calculate_prices(temp).raised]

\* Variant: the model object itself is re-parameterised and priced.
HeatmapCellInPlace(model, spot, vol, strike) ==
    [model |-> calculate_prices([model EXCEPT !.strike = strike,
                                              !.current_price = spot,
                                              !.volatility = vol]).self,
     temp |-> calculate_prices([model EXCEPT !.strike = strike,
                                             !.current_price = spot,
                                             !.volatility = vol]).self,
     raised |-> "none"]

\* Variant: the per-cell object is built but calculate_prices is not called.
HeatmapCellUnpriced(model, spot, vol, strike) ==
    [model |-> model,
     temp |-> BlackScholes(model.time_to_maturity, strike, spot, vol,
                           model.interest_rate),
     raised |-> "none"]

HeatmapCell(model, spot, vol, strike) ==
    heatmapCell[model,
                BlackScholes(model.time_to_maturity, strike, spot, vol,
                             model.interest_rate)]

\* Variant: purchase_price - price.
PnLFlipped(price, purchase_price) ==
    IF Gt(purchase_price, F(0)) THEN Sub(purchase_price, price) ELSE price

\* Lines 95-96: price - purchase_price if purchase_price > 0 else price.
PnL(price, purchase_price) ==
    IF Gt(purchase_price, F(0)) THEN Sub(price, purchase_price) ELSE price

\* f"{x:.4f}": sign, integer part and four decimals (or inf / nan as text).
Fmt4(x) ==
    IF IsFin(x)
    THEN [k |-> "text", neg |-> x.v < 0, int |-> Abs(x.v) \div SCALE,
          frac |-> RoundDiv((Abs(x.v) % SCALE) * 10^4, SCALE)]
    ELSE [k |-> x.k, neg |-> x.v < 0, int |-> 0, frac |-> 0]

\* Lines 228-244: the attributes read for the two columns of the table.
CallsColumn == <<"call_delta", "call_theta", "call_rho", "call_gamma", "vega">>
PutsColumn == <<"put_delta", "put_theta", "put_rho", "call_gamma", "vega">>

greeks(model) ==
    [Calls |-> [r \in 1..5 |-> Fmt4(model[CallsColumn[r]])],
     Puts |-> [r \in 1..5 |-> Fmt4(model[PutsColumn[r]])]]

NoTable == [Calls |-> <<>>, Puts |-> <<>>]

\* Reading any attribute in attrs of obj raises AttributeError if unassigned.
Readable(obj, attrs) == \A f \in attrs : obj[f] # Unset

(***************************************************************************)
(* Widgets.  min_value / max_value of each control, in grid units, and the *)
(* values a user may try to enter.  A control accepts a value only inside  *)
(* its range; a default (value=...) outside the range makes the widget     *)
(* call raise.                                                             *)
(***************************************************************************)
Widgets ==
    {"current_price", "strike", "time_to_maturity", "volatility",
     "interest_rate", "spot_min", "spot_max", "vol_min", "vol_max",
     "call_purchase_price", "put_purchase_price"}

Cent == SCALE \div 100

min_value ==
    [w \in Widgets |->
        IF w \in {"interest_rate", "call_purchase_price", "put_purchase_price"}
        THEN 0 ELSE Cent]

\* Only the two sliders have a max_value (1.0).
HasMax == {"vol_min", "vol_max"}
max_value == SCALE

\* Variant: every control takes any non-negative value.
AcceptsNonNegative(w, n) == n >= 0 /\ (w \in HasMax => n <= max_value)

\* Whether the control w accepts the value n.
Accepts(w, n) == n >= min_value[w] /\ (w \in HasMax => n <= max_value)

\* Values tried per control (grid units); each set holds one value the
\* control refuses (below its minimum or above its maximum).
Typed ==
    [w \in Widgets |->
        CASE w = "current_price" -> {0, Cent}
          [] w = "strike" -> {0, Cent}
          [] w = "time_to_maturity" -> {0, Cent}
          [] w = "volatility" -> {0, Cent, 40 * Cent, 70 * Cent}
          [] w = "interest_rate" -> {-Cent, 0}
          [] w = "spot_min" -> {0, 150 * SCALE}
          [] w = "spot_max" -> {0, Cent}
          [] w = "vol_min" -> {0, 50 * Cent}
          [] w = "vol_max" -> {Cent, 2 * SCALE}
          [] w = "call_purchase_price" -> {-Cent, 5 * SCALE}
          [] w = "put_purchase_price" -> {-Cent, 3 * SCALE}]

\* The value= defaults of lines 72-76 and 205-207; the four heatmap
\* parameters default to a multiple of another input (lines 195-200).
Defaults ==
    [w \in Widgets |->
        CASE w = "current_price" -> F(100 * SCALE)
          [] w = "strike" -> F(100 * SCALE)
          [] w = "time_to_maturity" -> F(SCALE)
          [] w = "volatility" -> F(20 * Cent)
          [] w = "interest_rate" -> F(5 * Cent)
          [] w = "call_purchase_price" -> F(0)
          [] w = "put_purchase_price" -> F(0)
          [] OTHER -> Unset]

DefaultOf(w, current_price, volatility) ==
    CASE w = "spot_min" -> Mul(current_price, F(80 * Cent))
      [] w = "spot_max" -> Mul(current_price, F(120 * Cent))
      [] w = "vol_min" -> Mul(volatility, F(50 * Cent))
      [] w = "vol_max" -> Mul(volatility, F(150 * Cent))

HeatmapParams == {"spot_min", "spot_max", "vol_min", "vol_max"}

\* The value a heatmap control returns: the entered one, else its default.
WidgetValue(entered, w) ==
    IF entered[w] = Unset
    THEN DefaultOf(w, entered.current_price, entered.volatility)
    ELSE entered[w]

\* Lines 195-200 raise when a computed default is outside the control's range.
DefaultsInRange(entered) ==
    \A w \in HeatmapParams :
        Accepts(w, DefaultOf(w, entered.current_price, entered.volatility).v)

(***************************************************************************)
(* State                                                                   *)
(***************************************************************************)
VARIABLES
    pc,          \* position of the running script, or of the engine's caller
    entered,     \* widget state: the value entered in each control
    reruns,      \* script reruns so far in this browser session
    bs_model,    \* the BlackScholes object built from the user's inputs
    bs_temp,     \* plot_pnl_heatmap's per-cell object
    prices,      \* call_price, put_price returned by calculate_prices
    i, j,        \* plot_pnl_heatmap's loop indices (vol row, spot column)
    call_pnl,    \* plot_pnl_heatmap's matrices
    put_pnl,
    evals,       \* per cell: engine evaluations made for it in this run
    greeks_data, \* the Greeks table
    error,       \* the exception that ended the script or the call
    calls,       \* calculate_prices calls made by the engine's caller
    before       \* the object as it was when the last call started

vars ==
    <<pc, entered, reruns, bs_model, bs_temp, prices, i, j, call_pnl, put_pnl,
      evals, greeks_data, error, calls, before>>

\* Script reruns explored per session.
MaxReruns == 1
\* calculate_prices calls explored per object.
MaxCalls == 2

NoEvals == [c \in Cells |-> 0]

(***************************************************************************)
(* The dashboard script, top to bottom (src/streamlit.py)                  *)
(***************************************************************************)
spot_min == WidgetValue(entered, "spot_min")
spot_max == WidgetValue(entered, "spot_max")
vol_min == WidgetValue(entered, "vol_min")
vol_max == WidgetValue(entered, "vol_max")

\* Lines 210-211
spot_range(n) == linspace(spot_min, spot_max, n)
vol_range(n) == linspace(vol_min, vol_max, n)

\* A fresh script run: nothing is bound yet.
RunStart ==
    /\ pc' = "start"
    /\ bs_model' = NoObject
    /\ bs_temp' = NoObject
    /\ prices' = <<Unset, Unset>>
    /\ i' = 0
    /\ j' = 0
    /\ call_pnl' = Zeros
    /\ put_pnl' = Zeros
    /\ evals' = NoEvals
    /\ greeks_data' = NoTable
    /\ error' = "none"

\* Lines 149-155
Construct ==
    /\ pc = "start"
    /\ bs_model' = BlackScholes(entered.time_to_maturity, entered.strike,
                                entered.current_price, entered.volatility,
                                entered.interest_rate)
    /\ pc' = "calculate"
    /\ UNCHANGED <<entered, reruns, bs_temp, prices, i, j, call_pnl, put_pnl,
                   evals, greeks_data, error, calls, before>>

\* Line 158
Calculate ==
    /\ pc = "calculate"
    /\ \E r \in {calculate_prices(bs_model)} :
           /\ bs_model' = r.self
           /\ prices' = r.ret
           /\ error' = r.raised
           /\ pc' = IF r.raised = "none" THEN "params" ELSE "failed"
    /\ UNCHANGED <<entered, reruns, bs_temp, i, j, call_pnl, put_pnl, evals,
                   greeks_data, calls, before>>

\* Lines 195-207: the heatmap controls.
HeatmapParameters ==
    /\ pc = "params"
    /\ IF DefaultsInRange(entered)
       THEN pc' = "plot1" /\ error' = error
       ELSE pc' = "failed" /\ error' = "StreamlitAPIException"
    /\ UNCHANGED <<entered, reruns, bs_model, bs_temp, prices, i, j, call_pnl,
                   put_pnl, evals, greeks_data, calls, before>>

\* Lines 216 and 220 enter plot_pnl_heatmap; lines 81-82 make the matrices.
EnterPlot ==
    /\ pc \in {"plot1", "plot2"}
    /\ call_pnl' = Zeros
    /\ put_pnl' = Zeros
    /\ i' = 0
    /\ j' = 0
    /\ pc' = IF pc = "plot1" THEN "loop1" ELSE "loop2"
    /\ UNCHANGED <<entered, reruns, bs_model, bs_temp, prices, evals,
                   greeks_data, error, calls, before>>

\* Lines 84-96: one iteration of the inner loop.
PlotCell ==
    /\ pc \in {"loop1", "loop2"}
    /\ \E r \in {HeatmapCell(bs_model, spot_range(j), vol_range(i),
                             entered.strike)} :
           /\ bs_temp' = r.temp
           /\ bs_model' = r.model
           /\ evals' = [evals EXCEPT ![<<i, j>>] = @ + 1]
           /\ IF r.raised # "none"
              THEN /\ error' = r.raised
                   /\ pc' = "failed"
                   /\ UNCHANGED <<call_pnl, put_pnl, i, j>>
              ELSE IF ~Readable(r.temp, {"call_price", "put_price"})
              THEN /\ error' = "AttributeError"
                   /\ pc' = "failed"
                   /\ UNCHANGED <<call_pnl, put_pnl, i, j>>
              ELSE /\ call_pnl' =
                        [call_pnl EXCEPT ![<<i, j>>] =
                            PnL(r.temp.call_price, entered.call_purchase_price)]
                   /\ put_pnl' =
                        [put_pnl EXCEPT ![<<i, j>>] =
                            PnL(r.temp.put_price, entered.put_purchase_price)]
                   /\ j' = IF j = GridN - 1 THEN 0 ELSE j + 1
                   /\ i' = IF j = GridN - 1 /\ i < GridN - 1 THEN i + 1 ELSE i
                   /\ pc' = IF i < GridN - 1 \/ j < GridN - 1 THEN pc
                            ELSE IF pc = "loop1" THEN "fig1" ELSE "fig2"
                   /\ error' = error
    /\ UNCHANGED <<entered, reruns, prices, greeks_data, calls, before>>

\* Lines 99-131 and 217 / 221: the figures are drawn from the matrices.
ShowFigure ==
    /\ pc \in {"fig1", "fig2"}
    /\ pc' = IF pc = "fig1" THEN "plot2" ELSE "greeks"
    /\ UNCHANGED <<entered, reruns, bs_model, bs_temp, prices, i, j, call_pnl,
                   put_pnl, evals, greeks_data, error, calls, before>>

\* Lines 228-247
Greeks ==
    /\ pc = "greeks"
    /\ IF Readable(bs_model, ResultFields \ {"call_price", "put_price",
                                              "put_gamma"})
       THEN greeks_data' = greeks(bs_model) /\ pc' = "done" /\ error' = error
       ELSE greeks_data' = greeks_data /\ pc' = "failed"
            /\ error' = "AttributeError"
    /\ UNCHANGED <<entered, reruns, bs_model, bs_temp, prices, i, j, call_pnl,
                   put_pnl, evals, calls, before>>

\* Changing current_price (volatility) changes the value= of the spot (vol)
\* controls, which are then new widgets showing their defaults.
AfterEntry(w, n) ==
    LET e == [entered EXCEPT ![w] = F(n)]
    IN  IF w = "current_price"
        THEN [e EXCEPT !.spot_min = Unset, !.spot_max = Unset]
        ELSE IF w = "volatility"
        THEN [e EXCEPT !.vol_min = Unset, !.vol_max = Unset]
        ELSE e

\* The user changes one control; Streamlit runs the script again.
Rerun ==
    /\ pc \in {"done", "failed"}
    /\ reruns < MaxReruns
    /\ \E w \in Widgets : \E n \in Typed[w] :
           /\ Accepts(w, n)
           /\ entered' = AfterEntry(w, n)
    /\ reruns' = reruns + 1
    /\ RunStart
    /\ UNCHANGED <<calls, before>>

Init ==
    /\ pc = "start"
    /\ entered = Defaults
    /\ reruns = 0
    /\ bs_model = NoObject
    /\ bs_temp = NoObject
    /\ prices = <<Unset, Unset>>
    /\ i = 0
    /\ j = 0
    /\ call_pnl = Zeros
    /\ put_pnl = Zeros
    /\ evals = NoEvals
    /\ greeks_data = NoTable
    /\ error = "none"
    /\ calls = 0
    /\ before = NoObject

Next ==
    \/ Construct
    \/ Calculate
    \/ HeatmapParameters
    \/ EnterPlot
    \/ PlotCell
    \/ ShowFigure
    \/ Greeks
    \/ Rerun

Spec == Init /\ [][Next]_vars

(***************************************************************************)
(* A direct caller of the engine (as black_scholes_model.py's own main):   *)
(* builds an object from any floats, calls calculate_prices, may assign an *)
(* input attribute and call again.                                         *)
(***************************************************************************)
EngineValues ==
    [f \in InputFields |->
        CASE f = "time_to_maturity" -> {0, Cent, SCALE \div 4, SCALE}
          [] f = "strike" -> {0, 90 * SCALE, 100 * SCALE}
          [] f = "current_price" -> {0, 80 * SCALE, 100 * SCALE, 110 * SCALE}
          [] f = "volatility" -> {0, 20 * Cent, 50 * Cent}
          [] f = "interest_rate" -> {0, 5 * Cent}]

EngineInit ==
    /\ pc = "idle"
    /\ entered = Defaults
    /\ reruns = 0
    /\ bs_model = NoObject
    /\ bs_temp = NoObject
    /\ prices = <<Unset, Unset>>
    /\ i = 0
    /\ j = 0
    /\ call_pnl = Zeros
    /\ put_pnl = Zeros
    /\ evals = NoEvals
    /\ greeks_data = NoTable
    /\ error = "none"
    /\ calls = 0
    /\ before = NoObject

\* bs_model = BlackScholes(...)
New ==
    /\ pc = "idle"
    /\ \E t \in EngineValues.time_to_maturity, k \in EngineValues.strike,
          s \in EngineValues.current_price, v \in EngineValues.volatility,
          r \in EngineValues.interest_rate :
           bs_model' = BlackScholes(F(t), F(k), F(s), F(v), F(r))
    /\ pc' = "made"
    /\ UNCHANGED <<entered, reruns, bs_temp, prices, i, j, call_pnl, put_pnl,
                   evals, greeks_data, error, calls, before>>

\* bs_model.calculate_prices()
Call ==
    /\ pc \in {"made", "returned", "raised"}
    /\ calls < MaxCalls
    /\ \E r \in {calculate_prices(bs_model)} :
           /\ bs_model' = r.self
           /\ prices' = r.ret
           /\ error' = r.raised
           /\ pc' = IF r.raised = "none" THEN "returned" ELSE "raised"
    /\ before' = bs_model
    /\ calls' = calls + 1
    /\ UNCHANGED <<entered, reruns, bs_temp, i, j, call_pnl, put_pnl, evals,
                   greeks_data>>

\* bs_model.<input field> = value, between two calls.
SetAttr ==
    /\ pc \in {"returned", "raised"}
    /\ calls < MaxCalls
    /\ \E f \in InputFields : \E n \in EngineValues[f] :
           /\ bs_model[f] # F(n)
           /\ bs_model' = [bs_model EXCEPT ![f] = F(n)]
    /\ pc' = "made"
    /\ error' = "none"
    /\ UNCHANGED <<entered, reruns, bs_temp, prices, i, j, call_pnl, put_pnl,
                   evals, greeks_data, calls, before>>

EngineNext ==
    \/ New
    \/ Call
    \/ SetAttr

EngineSpec == EngineInit /\ [][EngineNext]_vars

(***************************************************************************)
(* Properties                                                              *)
(***************************************************************************)
\* The engine's preconditions on an object's inputs.
ValidInputs(obj) ==
    /\ Gt(obj.time_to_maturity, F(0))
    /\ Gt(obj.volatility, F(0))
    /\ Gt(obj.strike, F(0))
    /\ Gt(obj.current_price, F(0))

\* A call of the direct caller has ended (the inputs are those it ran on).
CallEnded == pc \in {"returned", "raised"}

\* C1: a call with time_to_maturity = 0 or volatility = 0 ends in an
\* InvalidParameterError.  The code has no such check: the call returns, with
\* nan or inf results, or raises ZeroDivisionError when strike is 0 as well.
C1_RaisesInvalidParameter ==
    (CallEnded /\ (bs_model.time_to_maturity = F(0)
                   \/ bs_model.volatility = F(0)))
        => error = "InvalidParameterError"

\* C2: when the heatmaps of a run are drawn, every cell of the grid has been
\* evaluated exactly once.  The script calls plot_pnl_heatmap twice, so every
\* cell has been evaluated twice.
C2_OneEvaluationPerCell ==
    pc \in {"greeks", "done"} => \A c \in Cells : evals[c] = 1

\* The object a cell (row a, column b) prices: spot_range[b], vol_range[a] and
\* the user's strike, time_to_maturity and interest_rate.
expectedCell[a \in Axis, b \in Axis] ==
    calculate_prices(BlackScholes(entered.time_to_maturity, entered.strike,
                                  spot_range(b), vol_range(a),
                                  entered.interest_rate)).self

expectedCall[a \in Axis, b \in Axis] ==
    IF entered.call_purchase_price.v > 0
    THEN Sub(expectedCell[a, b].call_price, entered.call_purchase_price)
    ELSE expectedCell[a, b].call_price

expectedPut[a \in Axis, b \in Axis] ==
    IF entered.put_purchase_price.v > 0
    THEN Sub(expectedCell[a, b].put_price, entered.put_purchase_price)
    ELSE expectedCell[a, b].put_price

\* C3: in a completed heatmap, cell (i, j) of the call (put) matrix is the
\* engine's call (put) price for spot_range[j], vol_range[i] and the user's
\* strike, time_to_maturity and interest_rate, less the purchase price when
\* that is > 0.
C3_CellValues ==
    pc \in {"fig1", "fig2"} =>
        \A c \in Cells :
            /\ call_pnl[c] = expectedCall[c[1], c[2]]
            /\ put_pnl[c] = expectedPut[c[1], c[2]]

\* C3 case: a completed heatmap with a call purchase price and a losing cell.
C3_Witness ==
    /\ pc = "fig1"
    /\ entered.call_purchase_price.v > 0
    /\ \E c \in Cells : call_pnl[c].v < 0

\* C4: a call either returns with every result attribute assigned, or raises
\* with the object exactly as it was before the call; no object ever holds
\* only some of the result attributes.
C4_AllOrNothing ==
    /\ pc = "raised" => bs_model = before
    /\ pc = "returned" => Assigned(bs_model) = ResultFields
    /\ Assigned(bs_model) \in {{}, ResultFields}

\* C4 case: a second call that raised on an object holding earlier results.
C4_Witness ==
    /\ pc = "raised"
    /\ calls = 2
    /\ Assigned(bs_model) = ResultFields

\* The object calculate_prices leaves for the user's inputs.
userModel ==
    calculate_prices(BlackScholes(entered.time_to_maturity, entered.strike,
                                  entered.current_price, entered.volatility,
                                  entered.interest_rate)).self

AfterMainCall ==
    pc \in {"params", "plot1", "loop1", "fig1", "plot2", "loop2", "fig2",
            "greeks", "done"}

\* C5: from the main call on, through every heatmap cell, bs_model holds the
\* inputs and results computed for the user's inputs, and the Greeks table is
\* drawn from those.
C5_ModelUntouched ==
    /\ AfterMainCall => bs_model = userModel
    /\ pc = "done" => greeks_data = greeks(userModel)

\* C5 case: the table is drawn after cells were priced at another spot.
C5_Witness ==
    /\ pc = "done"
    /\ bs_temp # NoObject
    /\ bs_temp.current_price # bs_model.current_price

ParityLeft == Sub(bs_model.call_price, bs_model.put_price)
ParityRight == Sub(bs_model.current_price, Discounted(bs_model))

C8_SharedGamma ==
    /\ \A obj \in {bs_model, bs_temp} :
           Assigned(obj) # {} => obj.put_gamma = obj.call_gamma
    /\ pc = "done" =>
           /\ greeks_data.Calls[4] = greeks_data.Puts[4]
           /\ greeks_data.Puts[4] = Fmt4(bs_model.put_gamma)

\* C8 case: a drawn table with a non-zero gamma.
C8_Witness ==
    /\ pc = "done"
    /\ IsFin(bs_model.call_gamma)
    /\ bs_model.call_gamma.v > 0

\* C9: every object the script prices (the main one and each cell's) has
\* current_price, strike, time_to_maturity and volatility > 0.
C9_Preconditions ==
    \A obj \in {bs_model, bs_temp} : obj # NoObject => ValidInputs(obj)

\* C9 case: a heatmap swept downwards (spot_min above spot_max) to the
\* smallest spot and volatility the controls accept.
C9_Witness ==
    /\ pc = "fig1"
    /\ Gt(spot_min, spot_max)
    /\ bs_temp.current_price = F(min_value["spot_max"])

\* C10: the constructor leaves every result attribute unassigned, and no read
\* of a price or Greek ever finds one unassigned (no AttributeError): the
\* cells' prices and the table's Greeks are read from priced objects.
C10_ReadAfterCalculate ==
    /\ pc = "calculate" =>
           /\ Assigned(bs_model) = {}
           /\ \A f \in InputFields : bs_model[f] # Unset
    /\ error # "AttributeError"
    /\ bs_temp # NoObject => Assigned(bs_temp) = ResultFields
    /\ pc = "done" => Assigned(bs_model) = ResultFields

\* C10 case: a run that read the cells' prices and drew the table.
C10_Witness ==
    /\ pc = "done"
    /\ greeks_data # NoTable
    /\ \A c \in Cells : evals[c] > 0

====
